---- MODULE Spec2Model ----
(***************************************************************************)
(* Model of src/app.py: a Flask application that authenticates users       *)
(* against a hosted user table, classifies one (age, income, score)        *)
(* observation with a pre-fit scaler and k-means model, accumulates the    *)
(* observations in the module-level list data_store and regenerates four   *)
(* chart files from it with matplotlib.pyplot.                             *)
(*                                                                         *)
(* Each client has at most one request in flight; the handler serving it   *)
(* is a thread of the (threaded) Flask server, so the handlers of          *)
(* different clients interleave at every access to shared state:           *)
(* data_store, the user table, the chart files and pyplot's module-global  *)
(* figure registry.                                                        *)
(*                                                                         *)
(* The calls that reach outside the process and may raise are modelled     *)
(* with both outcomes where the handlers catch them: joblib.load (lines    *)
(* 50-56), os.makedirs (146), plt.savefig (inside the try of 163-210) and  *)
(* the insert into the user table (103-106). The page routes /, /about,    *)
(* /contact, /dashboard and the GET forms of /login and /register read and *)
(* write no state and are left out.                                        *)
(***************************************************************************)
EXTENDS Integers, Sequences, FiniteSets, TLC

VARIABLES
    phase,       \* "boot" (module body running), "serving", "aborted" (exit(1))
    kmeans,      \* TRUE once joblib.load bound the name kmeans
    scaler,      \* TRUE once joblib.load bound the name scaler
    users,       \* rows of the hosted table 'users', in insertion order
    session,     \* client -> user id kept by flask_login in its session, 0 = none
    data_store,  \* the module-level list data_store
    figs,        \* pyplot's global figure registry, the active figure last
    files,       \* chart key -> whether static/<key>.png exists
    pc,          \* client -> position of the handler serving its request
    form,        \* client -> request.form of the request in flight
    obs,         \* client -> predict's locals age, income, score, cluster
    idx,         \* client -> index at which predict appended, 0 = has not
    df,          \* client -> generate_visualizations' local df
    n,           \* client -> number of the chart being drawn
    images,      \* client -> generate_visualizations' local images (its keys)
    saved,       \* client -> the DataFrames shown by the figure its last
                 \* plt.savefig call wrote, until plt.close returns
    result,      \* client -> value returned by generate_visualizations
    raised,      \* client -> which step of the handler raised, "none" = none
    route,       \* client -> the route of the request in flight, "direct" for a
                 \* direct call of generate_visualizations
    resp         \* client -> the response of the handler

boot     == <<phase, kmeans, scaler>>
auth     == <<users, session>>
pyplot   == <<figs, files>>
vizvars  == <<df, n, images, saved, result>>
vars     == <<phase, kmeans, scaler, users, session, data_store, figs, files,
              pc, form, obs, idx, df, n, images, saved, result, raised, route,
              resp>>

----------------------------------------------------------------------------
(* Bounds of the model *)

\* Predictions accepted before the model stops taking valid forms.
MaxStore == 2

\* Figures a failed chart leaves open in pyplot's registry (plt.close skipped).
MaxLeaked == 1

Clients   == {"c1", "c2"}
Emails    == {"a@x", "b@x"}
Passwords == {"pw1", "pw2"}

----------------------------------------------------------------------------
(* request.form of /predict: each present field is the text typed, a        *)
(* sequence of characters.                                                  *)

Field(a, i, s) == [age |-> a, income |-> i, score |-> s]

FormScenario   == Field(<<"2","5">>, <<"4","0">>, <<"6","0">>)
FormBoundary   == Field(<<"6","0">>, <<"9","0">>, <<"1","0","0">>)
FormNegAge     == Field(<<"-","1">>, <<"4","0">>, <<"6","0">>)
FormZeroScore  == Field(<<"2","5">>, <<"4","0">>, <<"0">>)
FormScore101   == Field(<<"2","5">>, <<"4","0">>, <<"1","0","1">>)
FormNonNumeric == Field(<<"a","b","c">>, <<"4","0">>, <<"6","0">>)
FormNoIncome   == [age |-> <<"2","5">>, score |-> <<"6","0">>]

PredictForms == {FormScenario, FormBoundary, FormNegAge, FormZeroScore,
                 FormScore101, FormNonNumeric, FormNoIncome}

\* The forms submitted where charts may fail to render.
FaultForms == {FormScenario, FormNegAge}

NoForm == <<>>

----------------------------------------------------------------------------
(* int(request.form.get(name, 0)) *)

Digits == {"0","1","2","3","4","5","6","7","8","9"}

DigitVal(ch) ==
    CASE ch = "0" -> 0 [] ch = "1" -> 1 [] ch = "2" -> 2 [] ch = "3" -> 3
      [] ch = "4" -> 4 [] ch = "5" -> 5 [] ch = "6" -> 6 [] ch = "7" -> 7
      [] ch = "8" -> 8 [] ch = "9" -> 9

RECURSIVE DigitsVal(_, _)
DigitsVal(txt, acc) ==
    IF txt = <<>> THEN acc
    ELSE DigitsVal(Tail(txt), 10 * acc + DigitVal(Head(txt)))

AllDigits(txt) == txt # <<>> /\ \A k \in 1..Len(txt) : txt[k] \in Digits

\* int(text): an optional sign and decimal digits, anything else is a ValueError.
ParseInt(txt) ==
    IF AllDigits(txt) THEN [ok |-> TRUE, val |-> DigitsVal(txt, 0)]
    ELSE IF txt # <<>> /\ Head(txt) = "-" /\ AllDigits(Tail(txt))
         THEN [ok |-> TRUE, val |-> 0 - DigitsVal(Tail(txt), 0)]
    ELSE IF txt # <<>> /\ Head(txt) = "+" /\ AllDigits(Tail(txt))
         THEN [ok |-> TRUE, val |-> DigitsVal(Tail(txt), 0)]
    ELSE [ok |-> FALSE, val |-> 0]

\* request.form.get(name, 0) fed to int(): a missing field reads as 0.
FormInt(f, name) ==
    IF name \in DOMAIN f THEN ParseInt(f[name]) ELSE [ok |-> TRUE, val |-> 0]

ValidationMissesUpperEnd(age, income, score) ==
    age > 0 /\ income > 0 /\ 0 < score /\ score < 100

ValidationAcceptsZero(age, income, score) ==
    age >= 0 /\ income >= 0 /\ 0 <= score /\ score <= 100

\* all([age > 0, income > 0, 0 < score <= 100])
ValidInput(age, income, score) ==
    age > 0 /\ income > 0 /\ 0 < score /\ score <= 100

----------------------------------------------------------------------------
(* The inference artifacts. models/scaler.pkl and models/kmeans_model.pkl   *)
(* are binary files; the values below stand for their contents. The scaler  *)
(* computes (x - mean) / scale per feature; the result is kept exactly, in  *)
(* units of 1/Unit (every scale divides Unit).                              *)

ScalerMean  == <<40, 60, 50>>
ScalerScale == <<10, 20, 20>>
Unit        == ScalerScale[2]

\* cluster_centers_ in the scaled space, in units of 1/Unit
Centroids == << <<-20, -20, 10>>, <<20, 20, 20>>, <<0, 0, -20>> >>
K == Len(Centroids)

\* scaler.transform(np.array([[age, income, score]]))
Transform(x) == [i \in 1..3 |-> (x[i] - ScalerMean[i]) * (Unit \div ScalerScale[i])]

Dist2(z, c) == (z[1] - c[1]) * (z[1] - c[1]) + (z[2] - c[2]) * (z[2] - c[2])
               + (z[3] - c[3]) * (z[3] - c[3])

\* kmeans.predict(data_scaled)[0]: the label of the nearest centroid, the
\* lowest label among equidistant ones (argmin).
Nearest(z) ==
    CHOOSE j \in 0..(K - 1) :
        /\ \A m \in 0..(K - 1) : Dist2(z, Centroids[j + 1]) <= Dist2(z, Centroids[m + 1])
        /\ \A m \in 0..(j - 1) : Dist2(z, Centroids[m + 1]) > Dist2(z, Centroids[j + 1])

----------------------------------------------------------------------------
(* data_store *)

NoObs == [Age |-> 0, Income |-> 0, Score |-> 0, Cluster |-> -1]

Observation(age, income, score, cluster) ==
    [Age |-> age, Income |-> income, Score |-> score, Cluster |-> cluster]

StorePrepend(store, o) == <<o>> \o store

\* data_store.append({...})
StoreAppend(store, o) == Append(store, o)

IsPrefix(s, t) == Len(s) <= Len(t) /\ \A k \in 1..Len(s) : s[k] = t[k]

----------------------------------------------------------------------------
(* The four charts, in the order generate_visualizations draws them *)

ChartKeys == <<"income_vs_score", "age_vs_score", "age_vs_income",
               "cluster_distribution">>
NumCharts == Len(ChartKeys)
AllKeys   == {ChartKeys[k] : k \in 1..NumCharts}

\* A figure of pyplot's registry: the DataFrames plotted on it so far.
BlankFigure == [drawn |-> {}]

Unset      == [kind |-> "unset", keys |-> {}]
PyNone     == [kind |-> "None", keys |-> {}]
Dict(keys) == [kind |-> "dict", keys |-> keys]

----------------------------------------------------------------------------
(* Responses *)

NoResp == [kind |-> "none", flash |-> "", prediction |-> <<>>, images |-> Unset]

Redirect(to, msg) ==
    [kind |-> to, flash |-> msg, prediction |-> <<>>, images |-> Unset]

\* render_template("index.html", prediction=f"Customer belongs to Cluster
\* {cluster}", images=images)
PredictionPage(cluster, imgs) ==
    [kind |-> "index.html", flash |-> "",
     prediction |-> <<"Customer belongs to Cluster", cluster>>, images |-> imgs]

Page(name, msg) ==
    [kind |-> name, flash |-> msg, prediction |-> <<>>, images |-> Unset]

----------------------------------------------------------------------------
(* The user table and flask_login *)

\* werkzeug's generate_password_hash / check_password_hash
PasswordHash(p) == <<"pbkdf2", p>>
CheckPasswordHash(h, p) == h = PasswordHash(p)

\* supabase.table('users').select('*').eq('email', email).execute().data
SelectByEmail(tbl, email) == SelectSeq(tbl, LAMBDA r : r.email = email)

\* load_user: supabase.table('users').select('*').eq('id', user_id)
LoadUser(tbl, id) == SelectSeq(tbl, LAMBDA r : r.id = id)

NoLoginRequired(c) == TRUE

\* @login_required: current_user.is_authenticated
Authenticated(c) == session[c] # 0 /\ LoadUser(users, session[c]) # <<>>

UserRow(tbl, email, password) ==
    [id |-> Len(tbl) + 1, email |-> email, password |-> PasswordHash(password)]

InitialUsers == { <<>>, <<UserRow(<<>>, "a@x", "pw1")>> }

----------------------------------------------------------------------------

Init ==
    /\ phase = "boot"
    /\ kmeans = FALSE
    /\ scaler = FALSE
    /\ users \in InitialUsers
    /\ session = [c \in Clients |-> 0]
    /\ data_store = <<>>
    /\ figs = <<>>
    /\ files = [k \in AllKeys |-> FALSE]
    /\ pc = [c \in Clients |-> "idle"]
    /\ form = [c \in Clients |-> NoForm]
    /\ obs = [c \in Clients |-> NoObs]
    /\ idx = [c \in Clients |-> 0]
    /\ df = [c \in Clients |-> <<>>]
    /\ n = [c \in Clients |-> 0]
    /\ images = [c \in Clients |-> {}]
    /\ saved = [c \in Clients |-> {}]
    /\ result = [c \in Clients |-> Unset]
    /\ raised = [c \in Clients |-> "none"]
    /\ route = [c \in Clients |-> "none"]
    /\ resp = [c \in Clients |-> NoResp]

----------------------------------------------------------------------------
(* Module body, lines 49-56: load the two artifacts or exit(1).            *)

LoadErrorIgnored == "serving"

\* except Exception: print(...); exit(1)
OnLoadError == "aborted"

\* kOk, sOk: whether joblib.load succeeds on each file.
Load(kOk, sOk) ==
    /\ phase = "boot"
    /\ kmeans' = kOk
    /\ scaler' = (kOk /\ sOk)
    /\ phase' = IF kOk /\ sOk THEN "serving" ELSE OnLoadError
    /\ UNCHANGED <<users, session, data_store, figs, files, pc, form, obs, idx,
                   df, n, images, saved, result, raised, route, resp>>

----------------------------------------------------------------------------
(* /login, /logout *)

Unauthorized == Redirect("login", "Please log in to access this page.")

Login(c, email, password) ==
    /\ phase = "serving"
    /\ pc[c] = "idle"
    /\ LET rows == SelectByEmail(users, email)
       IN IF rows # <<>> /\ CheckPasswordHash(rows[1].password, password)
          THEN /\ session' = [session EXCEPT ![c] = rows[1].id]
               /\ resp' = [resp EXCEPT ![c] = Redirect("dashboard", "")]
          ELSE /\ session' = session
               /\ resp' = [resp EXCEPT ![c] =
                              Page("login.html", "Invalid email or password")]
    /\ form' = [form EXCEPT ![c] = [email |-> email, password |-> password]]
    /\ route' = [route EXCEPT ![c] = "/login"]
    /\ pc' = [pc EXCEPT ![c] = "done"]
    /\ UNCHANGED <<boot, users, data_store, pyplot, obs, idx, vizvars, raised>>

Logout(c) ==
    /\ phase = "serving"
    /\ pc[c] = "idle"
    /\ IF Authenticated(c)
       THEN /\ session' = [session EXCEPT ![c] = 0]
            /\ resp' = [resp EXCEPT ![c] = Redirect("home", "")]
       ELSE /\ session' = session
            /\ resp' = [resp EXCEPT ![c] = Unauthorized]
    /\ route' = [route EXCEPT ![c] = "/logout"]
    /\ pc' = [pc EXCEPT ![c] = "done"]
    /\ UNCHANGED <<boot, users, data_store, pyplot, form, obs, idx, vizvars,
                   raised>>

----------------------------------------------------------------------------
(* /register, lines 88-113: a lookup and an insert, two calls to the user  *)
(* table between which other requests run.                                 *)

\* The table's insert: the unique email column rejects a second row.
InsertUser(tbl, email, password) ==
    IF SelectByEmail(tbl, email) # <<>>
    THEN [ok |-> FALSE, tbl |-> tbl]
    ELSE [ok |-> TRUE, tbl |-> Append(tbl, UserRow(tbl, email, password))]

ExistenceCheckSkipped(rows) == FALSE

\* if response.data:
AlreadyRegistered(rows) == rows # <<>>

RegisterLookup(c, email, password) ==
    /\ phase = "serving"
    /\ pc[c] = "idle"
    /\ form' = [form EXCEPT ![c] = [email |-> email, password |-> password]]
    /\ IF AlreadyRegistered(SelectByEmail(users, email))
       THEN /\ resp' = [resp EXCEPT ![c] =
                           Redirect("register", "Email already registered")]
            /\ pc' = [pc EXCEPT ![c] = "done"]
       ELSE /\ resp' = resp
            /\ pc' = [pc EXCEPT ![c] = "insert"]
    /\ route' = [route EXCEPT ![c] = "/register"]
    /\ UNCHANGED <<boot, auth, data_store, pyplot, obs, idx, vizvars, raised>>

RegisterInsert(c) ==
    /\ pc[c] = "insert"
    /\ LET r == InsertUser(users, form[c].email, form[c].password)
       IN IF r.ok
          THEN /\ users' = r.tbl
               /\ raised' = raised
               /\ resp' = [resp EXCEPT ![c] =
                     Redirect("login", "Registration successful! Please login.")]
          ELSE /\ users' = users
               /\ raised' = [raised EXCEPT ![c] = "insert"]
               /\ resp' = [resp EXCEPT ![c] =
                     Page("register.html", "Error during registration")]
    /\ pc' = [pc EXCEPT ![c] = "done"]
    /\ UNCHANGED <<boot, session, data_store, pyplot, form, obs, idx, vizvars,
                   route>>

----------------------------------------------------------------------------
(* /predict, lines 129-154 *)

ErrorFlash(msg) == Redirect("dashboard", msg)

\* Lines 131-144: login_required, the three int() calls, the validation,
\* the scaling, the assignment and the append. Only the append touches
\* shared state.
Predict(c, f) ==
    /\ phase = "serving"
    /\ pc[c] = "idle"
    /\ form' = [form EXCEPT ![c] = f]
    /\ LET a == FormInt(f, "age")
           i == FormInt(f, "income")
           s == FormInt(f, "score")
           o == Observation(a.val, i.val, s.val,
                            Nearest(Transform(<<a.val, i.val, s.val>>)))
           fail(step, msg) ==
               /\ raised' = [raised EXCEPT ![c] = step]
               /\ resp' = [resp EXCEPT ![c] = ErrorFlash(msg)]
               /\ pc' = [pc EXCEPT ![c] = "done"]
               /\ UNCHANGED <<data_store, obs, idx>>
       IN IF ~Authenticated(c)
          THEN /\ resp' = [resp EXCEPT ![c] = Unauthorized]
               /\ pc' = [pc EXCEPT ![c] = "done"]
               /\ UNCHANGED <<data_store, obs, idx, raised>>
          ELSE IF ~(a.ok /\ i.ok /\ s.ok)
          THEN fail("int", "Error processing your request: invalid literal for int()")
          ELSE IF ~ValidInput(a.val, i.val, s.val)
          THEN fail("validation", "Error processing your request: Invalid input values")
          ELSE IF ~(scaler /\ kmeans)
          THEN fail("artifact", "Error processing your request: name is not defined")
          ELSE /\ Len(data_store) < MaxStore
               /\ data_store' = StoreAppend(data_store, o)
               /\ obs' = [obs EXCEPT ![c] = o]
               /\ idx' = [idx EXCEPT ![c] = Len(data_store) + 1]
               /\ pc' = [pc EXCEPT ![c] = "makedirs"]
               /\ UNCHANGED <<raised, resp>>
    /\ route' = [route EXCEPT ![c] = "/predict"]
    /\ UNCHANGED <<boot, auth, pyplot, vizvars>>

\* Line 146: os.makedirs('static', exist_ok=True), which raises OSError when
\* the directory cannot be created; line 147 then calls
\* generate_visualizations.
Makedirs(c, ok) ==
    /\ pc[c] = "makedirs"
    /\ IF ok
       THEN /\ pc' = [pc EXCEPT ![c] = "viz_check"]
            /\ UNCHANGED <<raised, resp>>
       ELSE /\ raised' = [raised EXCEPT ![c] = "makedirs"]
            /\ resp' = [resp EXCEPT ![c] =
                           ErrorFlash("Error processing your request: OSError")]
            /\ pc' = [pc EXCEPT ![c] = "done"]
    /\ UNCHANGED <<boot, auth, data_store, pyplot, form, obs, idx, vizvars,
                   route>>

\* Lines 149-151
Render(c) ==
    /\ pc[c] = "render"
    /\ resp' = [resp EXCEPT ![c] = PredictionPage(obs[c].Cluster, result[c])]
    /\ pc' = [pc EXCEPT ![c] = "done"]
    /\ UNCHANGED <<boot, auth, data_store, pyplot, form, obs, idx, vizvars,
                   raised, route>>

\* The response is sent and the handler's locals are gone.
Return(c) ==
    /\ pc[c] = "done"
    /\ pc' = [pc EXCEPT ![c] = "idle"]
    /\ form' = [form EXCEPT ![c] = NoForm]
    /\ obs' = [obs EXCEPT ![c] = NoObs]
    /\ idx' = [idx EXCEPT ![c] = 0]
    /\ df' = [df EXCEPT ![c] = <<>>]
    /\ n' = [n EXCEPT ![c] = 0]
    /\ images' = [images EXCEPT ![c] = {}]
    /\ saved' = [saved EXCEPT ![c] = {}]
    /\ result' = [result EXCEPT ![c] = Unset]
    /\ raised' = [raised EXCEPT ![c] = "none"]
    /\ route' = [route EXCEPT ![c] = "none"]
    /\ resp' = [resp EXCEPT ![c] = NoResp]
    /\ UNCHANGED <<boot, auth, data_store, pyplot>>

----------------------------------------------------------------------------
(* generate_visualizations, lines 156-212. pyplot keeps one registry of    *)
(* figures for the whole process: plt.figure() adds a figure and makes it  *)
(* the active one, seaborn draws on the active figure's axes (plt.gca()),  *)
(* plt.savefig() saves the active figure and plt.close() closes it; with   *)
(* no figure open, gca() and savefig() open a blank one first.             *)

\* The function is entered from predict (line 147); DirectCall enters it on
\* its own before the first prediction, as a test of the function does.
DirectCall(c) ==
    /\ phase = "serving"
    /\ pc[c] = "idle"
    /\ data_store = <<>>
    /\ pc' = [pc EXCEPT ![c] = "viz_check"]
    /\ route' = [route EXCEPT ![c] = "direct"]
    /\ UNCHANGED <<boot, auth, data_store, pyplot, form, obs, idx, vizvars,
                   raised, resp>>

\* Where control goes when generate_visualizations returns.
AfterViz(c) == IF route[c] = "/predict" THEN "render" ELSE "done"

\* Lines 157-158: if not data_store: return None
VizCheck(c) ==
    /\ pc[c] = "viz_check"
    /\ IF data_store = <<>>
       THEN /\ result' = [result EXCEPT ![c] = PyNone]
            /\ pc' = [pc EXCEPT ![c] = AfterViz(c)]
       ELSE /\ result' = result
            /\ pc' = [pc EXCEPT ![c] = "viz_df"]
    /\ UNCHANGED <<boot, auth, data_store, pyplot, form, obs, idx, df, n,
                   images, saved, raised, route, resp>>

\* pd.DataFrame(data_store): a copy of the rows present at the call
Snapshot(store) == store

\* Lines 160-161
VizSnapshot(c) ==
    /\ pc[c] = "viz_df"
    /\ df' = [df EXCEPT ![c] = Snapshot(data_store)]
    /\ images' = [images EXCEPT ![c] = {}]
    /\ n' = [n EXCEPT ![c] = 1]
    /\ pc' = [pc EXCEPT ![c] = "figure"]
    /\ UNCHANGED <<boot, auth, data_store, pyplot, form, obs, idx, saved,
                   result, raised, route, resp>>

\* plt.figure(figsize=(8, 6))
Figure(c) ==
    /\ pc[c] = "figure"
    /\ figs' = Append(figs, BlankFigure)
    /\ pc' = [pc EXCEPT ![c] = "plot"]
    /\ UNCHANGED <<boot, auth, data_store, files, form, obs, idx, vizvars,
                   raised, route, resp>>

\* gcf(): the active figure, a new blank one when none is open
Gcf(registry) == IF registry = <<>> THEN <<BlankFigure>> ELSE registry

Front(registry) == SubSeq(registry, 1, Len(registry) - 1)

\* sns.scatterplot(..., data=df) / sns.countplot(..., data=df) and the
\* title and labels: drawn on plt.gca()
Plot(c) ==
    /\ pc[c] = "plot"
    /\ LET reg == Gcf(figs)
           top == reg[Len(reg)]
       IN figs' = Append(Front(reg), [drawn |-> top.drawn \cup {df[c]}])
    /\ pc' = [pc EXCEPT ![c] = "savefig"]
    /\ UNCHANGED <<boot, auth, data_store, files, form, obs, idx, vizvars,
                   raised, route, resp>>

\* plt.savefig(os.path.join('static', '<key>.png'), ...)
Savefig(c) ==
    /\ pc[c] = "savefig"
    /\ LET reg == Gcf(figs)
       IN /\ figs' = reg
          /\ files' = [files EXCEPT ![ChartKeys[n[c]]] = TRUE]
          /\ saved' = [saved EXCEPT ![c] = reg[Len(reg)].drawn]
    /\ pc' = [pc EXCEPT ![c] = "close"]
    /\ UNCHANGED <<boot, auth, data_store, form, obs, idx, df, n, images,
                   result, raised, route, resp>>

\* plt.close(); images[<key>] = '<key>.png'; after the fourth chart,
\* return images (line 212)
Close(c) ==
    /\ pc[c] = "close"
    /\ figs' = IF figs = <<>> THEN figs ELSE Front(figs)
    /\ images' = [images EXCEPT ![c] = @ \cup {ChartKeys[n[c]]}]
    /\ saved' = [saved EXCEPT ![c] = {}]
    /\ IF n[c] = NumCharts
       THEN /\ result' = [result EXCEPT ![c] = Dict(images'[c])]
            /\ pc' = [pc EXCEPT ![c] = AfterViz(c)]
            /\ n' = n
       ELSE /\ result' = result
            /\ n' = [n EXCEPT ![c] = @ + 1]
            /\ pc' = [pc EXCEPT ![c] = "figure"]
    /\ UNCHANGED <<boot, auth, data_store, files, form, obs, idx, df, raised,
                   route, resp>>

\* Figures of the registry that no running handler will close.
LeakedFigs ==
    Len(figs) - Cardinality({c \in Clients : pc[c] \in {"plot", "savefig", "close"}})

ChartErrorReturnsPartial(c) ==
    /\ result' = [result EXCEPT ![c] = Dict(images[c])]
    /\ pc' = [pc EXCEPT ![c] = AfterViz(c)]
    /\ UNCHANGED <<raised, resp>>

ChartErrorPropagates(c) ==
    /\ result' = result
    /\ raised' = [raised EXCEPT ![c] = "chart"]
    /\ resp' = [resp EXCEPT ![c] =
                   ErrorFlash("Error processing your request: chart error")]
    /\ pc' = [pc EXCEPT ![c] = "done"]

\* Lines 208-210: except Exception: print(...); return None
ChartErrorHandler(c) ==
    /\ result' = [result EXCEPT ![c] = PyNone]
    /\ raised' = [raised EXCEPT ![c] = "chart"]
    /\ pc' = [pc EXCEPT ![c] = AfterViz(c)]
    /\ resp' = resp

\* plt.savefig raises inside the try block (the file cannot be written):
\* plt.close is skipped and the figure stays in the registry.
ChartError(c) ==
    /\ pc[c] = "savefig"
    /\ LeakedFigs < MaxLeaked
    /\ ChartErrorHandler(c)
    /\ UNCHANGED <<boot, auth, data_store, pyplot, form, obs, idx, df, n,
                   images, saved, route>>

----------------------------------------------------------------------------

PipelineStep(c, forms) ==
    \/ \E f \in forms : Predict(c, f)
    \/ \E ok \in BOOLEAN : Makedirs(c, ok)
    \/ VizCheck(c)
    \/ VizSnapshot(c)
    \/ Figure(c)
    \/ Plot(c)
    \/ Savefig(c)
    \/ Close(c)
    \/ Render(c)
    \/ Return(c)

SessionStep(c) ==
    \/ \E e \in Emails, p \in Passwords : Login(c, e, p)
    \/ Logout(c)

RegisterStep(c) ==
    \/ \E e \in Emails, p \in Passwords : RegisterLookup(c, e, p)
    \/ RegisterInsert(c)

Boot == \E kOk, sOk \in BOOLEAN : Load(kOk, sOk)

\* Concurrent /predict requests with every form, charts that render.
Next ==
    \/ Boot
    \/ \E c \in Clients : SessionStep(c)
    \/ \E c \in Clients : PipelineStep(c, PredictForms)

Spec == Init /\ [][Next]_vars

\* Concurrent /predict requests with charts that may fail to render.
NextFault ==
    \/ Boot
    \/ \E c \in Clients : SessionStep(c)
    \/ \E c \in Clients : PipelineStep(c, FaultForms)
    \/ \E c \in Clients : ChartError(c)

SpecFault == Init /\ [][NextFault]_vars

\* The same, and generate_visualizations called on its own.
NextViz ==
    \/ Boot
    \/ \E c \in Clients, e \in Emails, p \in Passwords : Login(c, e, p)
    \/ \E c \in Clients : PipelineStep(c, FaultForms)
    \/ \E c \in Clients : ChartError(c)
    \/ \E c \in Clients : DirectCall(c)

SpecViz == Init /\ [][NextViz]_vars

\* Concurrent /register requests and sessions.
NextAuth ==
    \/ Boot
    \/ \E c \in Clients : RegisterStep(c)
    \/ \E c \in Clients : SessionStep(c)
    \/ \E c \in Clients : Return(c)

SpecAuth == Init /\ [][NextAuth]_vars

----------------------------------------------------------------------------
(* Properties *)

\* The step dispatches a /predict request of client c.
PredictDispatched(c) == pc[c] = "idle" /\ route'[c] = "/predict"

\* The raw values a valid form carries, as the user typed them.
ValidForms == {FormScenario, FormBoundary}
RawValues(f) == IF f = FormScenario THEN <<25, 40, 60>> ELSE <<60, 90, 100>>

InvalidForms == {FormNegAge, FormZeroScore, FormScore101, FormNonNumeric,
                 FormNoIncome}

InputErrors == {"Error processing your request: Invalid input values",
                "Error processing your request: invalid literal for int()"}

\* C1: a /predict request of an authenticated user with a valid form assigns
\* a label in 0..K-1 and appends exactly one Observation, holding the raw
\* values and that label, at the end of data_store.
C1_ValidPredictAppendsOne ==
    [][\A c \in Clients :
          (PredictDispatched(c) /\ session[c] # 0 /\ form'[c] \in ValidForms)
          => \E label \in 0..(K - 1) :
                LET raw == RawValues(form'[c])
                    o   == [Age |-> raw[1], Income |-> raw[2], Score |-> raw[3],
                            Cluster |-> label]
                IN /\ data_store' = data_store \o <<o>>
                   /\ Len(data_store') = Len(data_store) + 1
                   /\ obs'[c] = o
                   /\ pc'[c] = "makedirs"]_vars

\* A second prediction, with the score at its upper end 100, has been appended.
C1_Witness ==
    \E c \in Clients :
        /\ pc[c] = "makedirs"
        /\ form[c] = FormBoundary
        /\ Len(data_store) = 2
        /\ data_store[2] = obs[c]
        /\ obs[c].Score = 100

\* C2: a /predict request with an invalid form (age <= 0, income <= 0,
\* score <= 0, score > 100, a non-numeric or a missing field) ends at once
\* without touching data_store, pyplot or the chart files; the handler, when
\* it runs, answers with the input error as a flash message.
C2_InvalidPredictChangesNothing ==
    [][\A c \in Clients :
          (PredictDispatched(c) /\ form'[c] \in InvalidForms)
          => /\ data_store' = data_store
             /\ files' = files
             /\ figs' = figs
             /\ pc'[c] = "done"
             /\ idx'[c] = 0
             /\ session[c] # 0
                => /\ resp'[c].kind = "dashboard"
                   /\ resp'[c].flash \in InputErrors
                   /\ raised'[c] \in {"int", "validation"}]_vars

\* A score of 101 has been refused while the store held an observation.
C2_Witness ==
    \E c \in Clients :
        /\ pc[c] = "done"
        /\ form[c] = FormScore101
        /\ raised[c] = "validation"
        /\ Len(data_store) > 0

\* C3: when chart generation fails during a /predict request, the
\* Observation stays appended, generate_visualizations returns None and the
\* response is the prediction page with the label text and no images.
C3_ChartFailureKeepsPrediction ==
    \A c \in Clients :
        (route[c] = "/predict" /\ raised[c] = "chart")
        => /\ pc[c] \in {"render", "done"}
           /\ result[c] = PyNone
           /\ idx[c] \in 1..Len(data_store)
           /\ data_store[idx[c]] = obs[c]
           /\ pc[c] = "done"
              => /\ resp[c].kind = "index.html"
                 /\ resp[c].prediction =
                       <<"Customer belongs to Cluster", data_store[idx[c]].Cluster>>
                 /\ resp[c].images = PyNone

\* A request whose third chart failed has been answered.
C3_Witness ==
    \E c \in Clients :
        /\ route[c] = "/predict"
        /\ raised[c] = "chart"
        /\ pc[c] = "done"
        /\ n[c] = 3

\* Whether generate_visualizations has returned to client c's handler.
Returned(c) == result[c].kind # "unset"

\* C4 as stated: generate_visualizations returns None on an empty store and
\* exactly the four identifiers on a non-empty one.
C4_FourChartsWheneverNonEmpty ==
    \A c \in Clients :
        Returned(c)
        => /\ df[c] = <<>> => result[c] = PyNone /\ images[c] = {}
           /\ df[c] # <<>> => result[c] = Dict(AllKeys)

\* C4, amended: generate_visualizations returns None or all four
\* identifiers, never a partial set: None without writing a chart when
\* data_store is empty, the four identifiers when data_store is not empty
\* and every chart renders, None when a rendering call raises.
C4_AllOrNothing ==
    /\ [](\A c \in Clients :
            Returned(c)
            => /\ result[c] \in {PyNone, Dict(AllKeys)}
               /\ df[c] = <<>> => result[c] = PyNone /\ images[c] = {}
               /\ (df[c] # <<>> /\ raised[c] # "chart") => result[c] = Dict(AllKeys)
               /\ raised[c] = "chart" => result[c] = PyNone)
    /\ [][\A c \in Clients :
            (pc[c] = "viz_check" /\ data_store = <<>>)
            => (pc'[c] = "viz_check" \/ (Returned(c)' /\ files' = files /\ figs' = figs))
         ]_vars

\* One call returned None on the empty store, another returned the four
\* identifiers.
C4_Witness ==
    \E c, d \in Clients :
        /\ route[c] = "direct" /\ result[c] = PyNone /\ df[c] = <<>>
        /\ result[d] = Dict(AllKeys)
        /\ \A k \in AllKeys : files[k]

\* C5: data_store is append-only: every step leaves its contents as a prefix
\* of the new contents and adds at most one Observation, at the end.
C5_AppendOnly ==
    [][/\ IsPrefix(data_store, data_store')
       /\ Len(data_store') <= Len(data_store) + 1]_vars

\* Two different observations are stored in the order of their submission.
C5_Witness ==
    /\ Len(data_store) = 2
    /\ data_store[1] # data_store[2]
    /\ \E c \in Clients : idx[c] = 2 /\ obs[c] = data_store[2]

\* C6: a /predict request of a client without a session is answered with the
\* redirect to the login page and never runs the pipeline: data_store, pyplot
\* and the chart files stay as they are, whatever the form.
C6_LoginRequired ==
    /\ [][\A c \in Clients :
            (PredictDispatched(c) /\ session[c] = 0)
            => /\ pc'[c] = "done"
               /\ resp'[c] = Unauthorized
               /\ idx'[c] = 0
               /\ data_store' = data_store
               /\ files' = files
               /\ figs' = figs]_vars
    /\ [](\A c \in Clients :
            (route[c] = "/predict" /\ resp[c] = Unauthorized)
            => pc[c] = "done" /\ idx[c] = 0 /\ ~Returned(c))

\* A valid form sent without a session has been turned away while the store
\* held an observation.
C6_Witness ==
    \E c \in Clients :
        /\ route[c] = "/predict"
        /\ form[c] = FormScenario
        /\ session[c] = 0
        /\ resp[c] = Unauthorized
        /\ Len(data_store) > 0

\* At most one row of the user table per email.
UniqueEmails ==
    \A i, j \in 1..Len(users) : users[i].email = users[j].email => i = j

\* C7: a /register request for an email that has a row in the user table is
\* answered with "Email already registered" and inserts nothing; after any
\* register requests the table holds at most one row per email.
C7_DuplicateEmailRejected ==
    /\ [][\A c \in Clients :
            (pc[c] = "idle" /\ route'[c] = "/register"
                /\ \E i \in 1..Len(users) : users[i].email = form'[c].email)
            => /\ resp'[c].flash = "Email already registered"
               /\ resp'[c].kind = "register"
               /\ pc'[c] = "done"
               /\ users' = users]_vars
    /\ []UniqueEmails

\* Both emails are registered and a further registration of one has been
\* refused.
C7_Witness ==
    \E c \in Clients :
        /\ Len(users) = 2
        /\ route[c] = "/register"
        /\ pc[c] = "done"
        /\ resp[c].flash = "Email already registered"

\* C8: requests are served only after both artifacts were loaded, which are
\* never reassigned; a failed load aborts the process, which serves nothing.
C8_ArtifactsLoadedBeforeTraffic ==
    /\ [][\/ /\ phase = "serving"
             /\ kmeans /\ scaler
             /\ UNCHANGED <<phase, kmeans, scaler>>
          \/ /\ phase = "boot"
             /\ phase' = "serving" <=> (kmeans' /\ scaler')
             /\ phase' = "aborted" <=> ~(kmeans' /\ scaler')
             /\ UNCHANGED <<users, session, data_store, figs, files, pc, form,
                            obs, idx, df, n, images, saved, result, raised,
                            route, resp>>]_vars
    /\ [](phase # "serving" => \A c \in Clients : pc[c] = "idle" /\ resp[c] = NoResp)

\* The model was loaded, the scaler was not, and the process exited.
C8_Witness ==
    /\ phase = "aborted"
    /\ kmeans
    /\ ~scaler
    /\ \A c \in Clients : pc[c] = "idle"

\* C9: the DataFrame of a /predict request is a prefix of data_store that
\* holds the request's own Observation, and each chart file the request
\* writes shows that DataFrame and nothing else.
C9_ChartsFromOwnSnapshot ==
    \A c \in Clients :
        (route[c] = "/predict" /\ pc[c] \in {"figure", "plot", "savefig", "close"})
        => /\ IsPrefix(df[c], data_store)
           /\ idx[c] \in 1..Len(df[c])
           /\ df[c][idx[c]] = obs[c]
           /\ pc[c] = "close" => saved[c] = {df[c]}

\* C10: a /predict request that reached the handler has appended to
\* data_store if and only if it is answered with the prediction page.
C10_StoreGrowsIffPredictionPage ==
    \A c \in Clients :
        (route[c] = "/predict" /\ pc[c] = "done" /\ resp[c] # Unauthorized)
        => (idx[c] # 0 <=> resp[c].kind = "index.html")

====
